---------------------------- MODULE Spec2Model ----------------------------
(***************************************************************************)
(* A model of metric-im/data-server: the DataServer class (src/index.mjs)  *)
(* and the Trash class (src/Trash.mjs, the first of the two versions the   *)
(* file holds, lines 1-169).                                               *)
(*                                                                         *)
(* Documents are functions from field names (strings) to values.  A put    *)
(* payload is a sequence of <<key, value>> pairs, because constructModifier*)
(* walks the payload's keys in insertion order.  The document store is     *)
(* modelled by what the code relies on: filtered find, upsert with $set /  *)
(* $unset / $setOnInsert, insert with a unique _id, deleteMany.            *)
(*                                                                         *)
(* A handler reads the clock once: the consecutive `new Date()` calls of   *)
(* one handler see the same millisecond.  Time passes between handlers     *)
(* (Tick), and need not pass: two handlers may run in one millisecond.     *)
(***************************************************************************)
EXTENDS Integers, Sequences, FiniteSets, TLC

VARIABLES
    db,         \* collection name -> set of documents (connector.db)
    trash,      \* the trash holding collection: a set of TrashRecords
    now,        \* the clock read by new Date()
    issued,     \* the ids idForge.datedId() has produced
    options,    \* this.options
    req,        \* the last request or call
    res,        \* its outcome
    sequel      \* history: the last call followed up on the one before it

vars == <<db, trash, now, issued, options, req, res, sequel>>

---------------------------------------------------------------------------
(* Bounds *)

\* The clock runs over 0..MaxClock.
MaxClock == 1
\* A batch payload holds at most MaxBatch items.
MaxBatch == 2

---------------------------------------------------------------------------
(* The world around the server *)

Collections == {"widgets", "gadgets"}

\* The ids callers name, and the ids idForge.datedId() can produce.
Ids == {"w1", "w2"}
GenIds == {"g1"}

\* A caller is req.account: the user, the session account, the super flag.
u1 == [userId |-> "u1", id |-> "A", super |-> FALSE]
u2 == [userId |-> "u2", id |-> "B", super |-> FALSE]
u3 == [userId |-> "u3", id |-> "A", super |-> FALSE]
root == [userId |-> "root", id |-> "A", super |-> TRUE]
\* A caller with no grant at any level.
u4 == [userId |-> "u4", id |-> "B", super |-> FALSE]

Callers == {u1, u2, u3, root}

Levels == {"read", "write", "owner", "create"}

\* connector.acl.get[level]({user}, 'account'), already mapped to account
\* ids: the external oracle, here one fixed table.  u1 holds read, write and
\* owner on A but no create grant; u2 holds read, write and create on B but
\* is not an owner; u3 sits in account A, reads A and B and writes only B.
acl(level, userId) ==
    CASE userId = "u1" -> IF level = "create" THEN {} ELSE {"A"}
      [] userId = "u2" -> IF level = "owner" THEN {} ELSE {"B"}
      [] userId = "u3" -> CASE level = "read" -> {"A", "B"}
                            [] level = "write" -> {"B"}
                            [] OTHER -> {}
      [] OTHER -> {}

---------------------------------------------------------------------------
(* Documents and payloads *)

EmptyDoc == <<>>

Has(d, k) == k \in DOMAIN d

\* d with field k set to v.
With(d, k, v) == (k :> v) @@ d

\* d without the fields of ks.
Without(d, ks) == [k \in (DOMAIN d) \ ks |-> d[k]]

\* A payload is a sequence of <<key, value>> pairs with distinct keys.
Keys(body) == {body[i][1] : i \in 1..Len(body)}

Val(body, k) == body[CHOOSE i \in 1..Len(body) : body[i][1] = k][2]

\* JavaScript truthiness of body[k]: a missing key and "" are falsy.
Truthy(body, k) == k \in Keys(body) /\ Val(body, k) # ""

\* body[k] = v: an existing key keeps its place, a new key goes last.
Assign(body, k, v) ==
    IF k \in Keys(body)
    THEN [i \in 1..Len(body) |-> IF body[i][1] = k THEN <<k, v>> ELSE body[i]]
    ELSE Append(body, <<k, v>>)

---------------------------------------------------------------------------
(* The document store *)

\* A selector maps a field to the set of values it admits ({v} for
\* equality, the list of an $in).
Matches(d, selector) ==
    \A k \in DOMAIN selector : Has(d, k) /\ d[k] \in selector[k]

Find(coll, selector) == {d \in coll : Matches(d, selector)}

\* The documents of a collection that have the id.
ById(coll, id) == Find(coll, "_id" :> {id})

\* Object.assign(target, source)
ObjectAssign(target, source) == source @@ target

DeleteMany(coll, selector) == coll \ Find(coll, selector)

\* The store refuses an update that names one path under two operators.
ModifierConflict(modifier) ==
    \E a, b \in DOMAIN modifier :
        a # b /\ (DOMAIN modifier[a]) \cap (DOMAIN modifier[b]) # {}

Bucket(modifier, op) == IF op \in DOMAIN modifier THEN modifier[op] ELSE EmptyDoc

\* An update that writes the insert-only fields on a match as well.
ApplyUpdateWithInsertFields(d, modifier) ==
    Bucket(modifier, "$set") @@ Bucket(modifier, "$setOnInsert")
        @@ Without(d, DOMAIN Bucket(modifier, "$unset"))

\* $unset, then $set, on an existing document.
ApplyUpdate(d, modifier) ==
    Bucket(modifier, "$set") @@ Without(d, DOMAIN Bucket(modifier, "$unset"))

\* The document an upsert inserts: the filter's _id, $set and $setOnInsert.
InsertedDoc(id, modifier) ==
    Bucket(modifier, "$set") @@ Bucket(modifier, "$setOnInsert") @@ ("_id" :> id)

\* An update may not change _id.
TouchesId(id, modifier) ==
    \/ Has(Bucket(modifier, "$unset"), "_id")
    \/ Has(Bucket(modifier, "$set"), "_id") /\ Bucket(modifier, "$set")["_id"] # id
    \/ Has(Bucket(modifier, "$setOnInsert"), "_id")
         /\ Bucket(modifier, "$setOnInsert")["_id"] # id

\* updateOne / findOneAndUpdate with filter {_id: id} and upsert: true.
\* err: the store rejected the update; pre: the documents matched (none or
\* one); coll: the collection afterwards; upserted, modified: the counts.
Upsert(coll, id, modifier) ==
    LET pre == Find(coll, "_id" :> {id})
    IN  IF ModifierConflict(modifier) \/ TouchesId(id, modifier)
        THEN [err |-> TRUE, pre |-> pre, coll |-> coll, upserted |-> 0, modified |-> 0]
        ELSE IF pre = {}
        THEN [err |-> FALSE, pre |-> pre,
              coll |-> coll \cup {InsertedDoc(id, modifier)},
              upserted |-> 1, modified |-> 0]
        ELSE LET old == CHOOSE d \in pre : TRUE
                 new == ApplyUpdate(old, modifier)
             IN  [err |-> FALSE, pre |-> pre,
                  coll |-> (coll \ {old}) \cup {new},
                  upserted |-> 0,
                  modified |-> IF new = old THEN 0 ELSE 1]

---------------------------------------------------------------------------
(* DataServer.put *)

PassThrough == {"$push", "$pull", "$addToSet", "$unset", "$set"}
Protected == {"_id", "_created", "_createdBy"}

\* The for-in loop of constructModifier, from the i-th key on.
RECURSIVE ModifierLoop(_, _, _)
ModifierLoop(doc, i, modifier) ==
    IF i > Len(doc) THEN modifier
    ELSE LET a == doc[i][1]
             v == doc[i][2]
         IN  IF a \in PassThrough
             THEN ModifierLoop(doc, i + 1, With(modifier, a, v))
             ELSE IF a \notin Protected
             THEN ModifierLoop(doc, i + 1,
                               With(modifier, "$set", With(modifier["$set"], a, v)))
             ELSE ModifierLoop(doc, i + 1, modifier)

\* constructModifier with _created stamped in $set, not in $setOnInsert.
constructModifierSetCreated(doc, account, date) ==
    LET m1 == ModifierLoop(doc, 1, "$set" :> EmptyDoc)
        m2 == With(m1, "$set",
                   With(With(m1["$set"], "_modified", date), "_created", date))
    IN  With(m2, "$setOnInsert",
             IF ~Truthy(doc, "_createdBy") THEN "_createdBy" :> account.userId
             ELSE EmptyDoc)

constructModifier(doc, account, date) ==
    LET m1 == ModifierLoop(doc, 1, "$set" :> EmptyDoc)
        m2 == With(m1, "$set", With(m1["$set"], "_modified", date))
        onInsert == IF ~Truthy(doc, "_createdBy")
                    THEN With("_created" :> date, "_createdBy", account.userId)
                    ELSE "_created" :> date
    IN  With(m2, "$setOnInsert", onInsert)

\* accounts, as put resolves it: the write grants, plus the session account
\* of a superuser.
WritableAccounts(account) ==
    acl("write", account.userId) \cup (IF account.super THEN {account.id} ELSE {})

\* AccountAdmitted with the session account looked up in place of the
\* payload's _account.
AccountAdmittedSession(account, o) ==
    ~Truthy(o, "_account") \/ account.id \in WritableAccounts(account)

\* Whether the payload's _account passes put's check (after the default is
\* assigned, it always does).
AccountAdmitted(account, o) ==
    ~Truthy(o, "_account") \/ Val(o, "_account") \in WritableAccounts(account)

\* body._id || id || datedId(): id = "" stands for no id argument, fresh
\* for the id datedId() would produce.
NeedsFreshId(body, id) == ~Truthy(body, "_id") /\ id = ""

\* TargetId with the id argument taken before the payload's _id.
TargetIdArgFirst(body, id, fresh) ==
    IF id # "" THEN id
    ELSE IF Truthy(body, "_id") THEN Val(body, "_id")
    ELSE fresh

TargetId(body, id, fresh) ==
    IF Truthy(body, "_id") THEN Val(body, "_id")
    ELSE IF id # "" THEN id
    ELSE fresh

\* The payload after `if (!body._account) body._account = account.id`.
DefaultAccount(account, body) ==
    IF ~Truthy(body, "_account") THEN Assign(body, "_account", account.id) ELSE body

\* The single branch of put: the outcome as [status, value, coll].  status 0
\* is a normal return, 401 the authorization error, 500 an error thrown
\* without a status (the routes answer e.status || 500); coll is the
\* collection afterwards.  findOneAndUpdate answers the document as it was
\* before the update (returnNewDocument is not an option of the driver), and
\* nothing on an insert, which put then reads back.
PutSingle(account, coll, body, id, fresh, date) ==
    LET target == TargetId(body, id, fresh)
    IN  IF ~AccountAdmitted(account, body)
        THEN [status |-> 401, value |-> EmptyDoc, coll |-> coll]
        ELSE LET modifier == constructModifier(DefaultAccount(account, body), account, date)
                 r == Upsert(coll, target, modifier)
             IN  IF r.err
                 THEN [status |-> 500, value |-> EmptyDoc, coll |-> coll]
                 ELSE [status |-> 0,
                       value |-> IF r.pre # {} THEN CHOOSE d \in r.pre : TRUE
                                 ELSE CHOOSE d \in Find(r.coll, "_id" :> {target}) : TRUE,
                       coll |-> r.coll]

\* The writes a batch issues: one per item whose _account is admitted, in
\* order.  An item with no _id takes the id fresh.
RECURSIVE BatchWrites(_, _, _, _, _)
BatchWrites(account, body, i, fresh, date) ==
    IF i > Len(body) THEN <<>>
    ELSE LET o == body[i]
             rest == BatchWrites(account, body, i + 1, fresh, date)
         IN  IF ~AccountAdmitted(account, o) THEN rest
             ELSE <<[id |-> TargetId(o, "", fresh),
                     update |-> constructModifier(DefaultAccount(account, o), account, date)]>>
                  \o rest

\* collection.bulkWrite(writes), ordered: the writes are applied in order and
\* the first one the store rejects ends the batch with an error, the earlier
\* ones staying applied.  The driver rejects an empty list of writes.
RECURSIVE BulkWrite(_, _, _)
BulkWrite(coll, writes, i) ==
    IF i > Len(writes)
    THEN [err |-> Len(writes) = 0, coll |-> coll, upsertedCount |-> 0, modifiedCount |-> 0]
    ELSE LET r == Upsert(coll, writes[i].id, writes[i].update)
         IN  IF r.err
             THEN [err |-> TRUE, coll |-> coll, upsertedCount |-> 0, modifiedCount |-> 0]
             ELSE LET t == BulkWrite(r.coll, writes, i + 1)
                  IN  [err |-> t.err, coll |-> t.coll,
                       upsertedCount |-> t.upsertedCount + r.upserted,
                       modifiedCount |-> t.modifiedCount + r.modified]

\* The batch branch of put.
PutBatch(account, coll, body, fresh, date) ==
    IF Len(body) = 0
    THEN [status |-> 500, value |-> EmptyDoc, coll |-> coll]
    ELSE LET r == BulkWrite(coll, BatchWrites(account, body, 1, fresh, date), 1)
         IN  IF r.err
             THEN [status |-> 500, value |-> EmptyDoc, coll |-> r.coll]
             ELSE [status |-> 0,
                   value |-> [upsertedCount |-> r.upsertedCount,
                              modifiedCount |-> r.modifiedCount],
                   coll |-> r.coll]

\* How many of the batch's items call datedId().
RECURSIVE FreshNeeded(_, _, _)
FreshNeeded(account, body, i) ==
    IF i > Len(body) THEN 0
    ELSE FreshNeeded(account, body, i + 1)
         + (IF AccountAdmitted(account, body[i]) /\ ~Truthy(body[i], "_id") THEN 1 ELSE 0)

---------------------------------------------------------------------------
(* DataServer.get and DataServer.remove *)

\* get(account, collection, item, options): the selector is the item id, if
\* any, overlaid with the where clause; item = "" stands for no item and
\* where is the object the parser made of options.where.  The result is the
\* set of documents found (for an item, results[0] || {} is its only member
\* or nothing).  No limit is set.
Get(coll, item, where) ==
    Find(coll, ObjectAssign(IF item # "" THEN "_id" :> {item} ELSE EmptyDoc, where))

\* The selector of remove.
RemoveSelector(account, ids) ==
    ("_account" :> {account.id}) @@ ("_id" :> ids)

\* remove(account, collection, ids), ids the set an array or a string names,
\* {} standing for no ids: the outcome as [status, coll].
Remove(account, coll, ids) ==
    IF ids = {} THEN [status |-> 500, coll |-> coll]
    ELSE [status |-> 0, coll |-> DeleteMany(coll, RemoveSelector(account, ids))]

---------------------------------------------------------------------------
(* DataServer.routes *)

\* A list option that is not defined.
Undefined == [defined |-> FALSE, names |-> {}]
List(names) == [defined |-> TRUE, names |-> names]

\* The options of new DataServer(connector).
DefaultOptions == [safeDelete |-> FALSE, include |-> Undefined, exclude |-> List({"user"})]

\* The first middleware: whether the request is passed on.  list?.includes(x)
\* is undefined, hence falsy, for a list that is not defined.
Honoured(opts, collection) ==
    IF ~(opts.include.defined \/ opts.exclude.defined) THEN TRUE
    ELSE ~(\/ (opts.exclude.defined /\ collection \in opts.exclude.names)
           \/ ~(opts.include.defined /\ collection \in opts.include.names))

\* The second middleware: the access level of the request's method.
Level(method, opts) ==
    CASE method = "PUT" -> "write"
      [] method = "DELETE" -> IF opts.safeDelete THEN "create" ELSE "owner"
      [] OTHER -> "read"

\* req._availableAccounts
AvailableAccounts(method, opts, account) == acl(Level(method, opts), account.userId)

\* The test that opens the GET, PUT and DELETE handlers.
Admitted(method, opts, account) ==
    account.super \/ account.id \in AvailableAccounts(method, opts, account)

\* The selector of GET /data/:collection/:item?
RouteGetSelector(account, item, where) ==
    ObjectAssign(IF item # "" THEN ("_account" :> {account.id}) @@ ("_id" :> {item})
                 ELSE "_account" :> {account.id},
                 where)

\* req.params.ids.split(','): the ids a path parameter names.
Split(param) ==
    CASE param = "w1,w2" -> {"w1", "w2"}
      [] OTHER -> {param}

---------------------------------------------------------------------------
(* Trash *)

\* The _id of a TrashRecord.
TrashId(col, oid) == col \o "::" \o oid

\* The enumerations of a finite set: the orders a find may answer in.
Orders(S) ==
    {f \in [1..Cardinality(S) -> S] : \A i, j \in 1..Cardinality(S) : f[i] = f[j] => i = j}

\* Snapshot re-inserting the TrashRecord itself, as pluck does.
SnapshotRecord(item) == item

\* What restore re-inserts for a TrashRecord.
Snapshot(item) == item["o"]

\* insertOne: the store refuses a second document with an _id.
InsertOne(coll, d) ==
    IF ById(coll, d["_id"]) # {} THEN [err |-> TRUE, coll |-> coll]
    ELSE [err |-> FALSE, coll |-> coll \cup {d}]

\* TrashUpsert with _created and _createdBy in $set, stamped at every
\* trashing.
TrashUpsertRestamp(tr, account, col, o, date) ==
    LET found == Find(tr, ("col" :> {col}) @@ ("oid" :> {o["_id"]}))
        set == ("_modified" :> date) @@ ("o" :> o)
                 @@ ("_created" :> date) @@ ("_createdBy" :> account.userId)
    IN  IF found # {}
        THEN LET old == CHOOSE r \in found : TRUE
             IN  [err |-> FALSE, coll |-> (tr \ {old}) \cup {set @@ old}]
        ELSE InsertOne(tr, set @@ ("_id" :> TrashId(col, o["_id"]))
                               @@ ("col" :> col) @@ ("oid" :> o["_id"]))

\* The upsert Trash.put issues for the document o: filter {col, oid},
\* $setOnInsert {_id, _created, _createdBy}, $set {_modified, o}.
TrashUpsert(tr, account, col, o, date) ==
    LET found == Find(tr, ("col" :> {col}) @@ ("oid" :> {o["_id"]}))
        set == ("_modified" :> date) @@ ("o" :> o)
    IN  IF found # {}
        THEN LET old == CHOOSE r \in found : TRUE
             IN  [err |-> FALSE, coll |-> (tr \ {old}) \cup {set @@ old}]
        ELSE InsertOne(tr, set @@ ("_id" :> TrashId(col, o["_id"]))
                               @@ ("_created" :> date)
                               @@ ("_createdBy" :> account.userId)
                               @@ ("col" :> col) @@ ("oid" :> o["_id"]))

\* trashCollection.bulkWrite(writes), ordered, for the documents body[i..].
RECURSIVE TrashBulk(_, _, _, _, _, _)
TrashBulk(tr, account, col, body, i, date) ==
    IF i > Len(body) THEN [err |-> FALSE, coll |-> tr]
    ELSE LET r == TrashUpsert(tr, account, col, body[i], date)
         IN  IF r.err THEN r
             ELSE TrashBulk(r.coll, account, col, body, i + 1, date)

\* Trash.put(account, col, ids) once body is known (the documents found for
\* the ids, in the store's order, or the documents passed in): the outcome
\* as [status, trash, coll].
TrashPut(tr, coll, account, col, body, date) ==
    LET w == TrashBulk(tr, account, col, body, 1, date)
        deleteIds == {body[i]["_id"] : i \in 1..Len(body)}
    IN  IF w.err THEN [status |-> 500, trash |-> w.coll, coll |-> coll]
        ELSE [status |-> 0, trash |-> w.coll,
              coll |-> DeleteMany(coll, "_id" :> deleteIds)]

\* The collections of the records body[1..n], in order of first appearance:
\* the keys of restore's writes object.
RECURSIVE RestoreCols(_, _)
RestoreCols(body, n) ==
    IF n = 0 THEN <<>>
    ELSE LET cols == RestoreCols(body, n - 1)
         IN  IF \E k \in 1..Len(cols) : cols[k] = body[n]["col"] THEN cols
             ELSE Append(cols, body[n]["col"])

\* The ordered bulk insert of the snapshots of body[i..] that belong to col.
RECURSIVE RestoreInserts(_, _, _, _)
RestoreInserts(coll, col, body, i) ==
    IF i > Len(body) THEN [err |-> FALSE, coll |-> coll]
    ELSE IF body[i]["col"] # col THEN RestoreInserts(coll, col, body, i + 1)
    ELSE LET r == InsertOne(coll, Snapshot(body[i]))
         IN  IF r.err THEN r ELSE RestoreInserts(r.coll, col, body, i + 1)

\* The loop over restore's writes, from the k-th collection on.
RECURSIVE RestoreLoop(_, _, _, _)
RestoreLoop(d, cols, body, k) ==
    IF k > Len(cols) THEN [err |-> FALSE, db |-> d]
    ELSE LET r == RestoreInserts(d[cols[k]], cols[k], body, 1)
             d2 == [d EXCEPT ![cols[k]] = r.coll]
         IN  IF r.err THEN [err |-> TRUE, db |-> d2]
             ELSE RestoreLoop(d2, cols, body, k + 1)

\* Trash.restore(ids) once body is known (the TrashRecords found for ids, in
\* the store's order): the outcome as [status, db, trash].
TrashRestore(d, tr, ids, body) ==
    LET r == RestoreLoop(d, RestoreCols(body, Len(body)), body, 1)
    IN  IF r.err THEN [status |-> 500, db |-> r.db, trash |-> tr]
        ELSE [status |-> 0, db |-> r.db, trash |-> DeleteMany(tr, "_id" :> ids)]

\* EmptyQuery without the collection.
EmptyQueryAnyCollection(col, oids, tids) ==
    (IF oids # {} THEN "oid" :> oids ELSE EmptyDoc)
      @@ (IF tids # {} THEN "_id" :> tids ELSE EmptyDoc)

\* The query of Trash.empty(col, oid, _id): "" and {} stand for an argument
\* that is not given.
EmptyQuery(col, oids, tids) ==
    (IF col # "" THEN "col" :> {col} ELSE EmptyDoc)
      @@ (IF oids # {} THEN "oid" :> oids ELSE EmptyDoc)
      @@ (IF tids # {} THEN "_id" :> tids ELSE EmptyDoc)

\* The selector of GET /data/trash/:item?: the item, if any, as the _id;
\* with no item, for a caller who is not a superuser and whose
\* _availableAccounts is not empty, the accounts as the _ids; the where
\* clause laid over it.
TrashListSelector(account, available, item, where) ==
    ObjectAssign(IF item # "" THEN "_id" :> {item}
                 ELSE IF ~account.super /\ available # {} THEN "_id" :> available
                 ELSE EmptyDoc,
                 where)

\* DELETE /data/trash/:col?/:ids? without restriction.
TrashDeleteAdmittedAll(account, col) == TRUE

\* The test that opens DELETE /data/trash/:col?/:ids?: a purge that names no
\* collection is for a superuser.
TrashDeleteAdmitted(account, col) == col # "" \/ account.super

\* Trash.put with the delete issued before the bulk upsert.
TrashPutDeleteFirst(pc) ==
    CASE pc = "find" -> "delete"
      [] pc = "delete" -> "bulk"
      [] OTHER -> "done"

\* The order of the store calls of Trash.put: the find of the documents,
\* the bulk upsert into the trash, the delete from the origin collection.
TrashPutStepAfter(pc) ==
    CASE pc = "find" -> "bulk"
      [] pc = "bulk" -> "delete"
      [] OTHER -> "done"

\* Trash.restore going on to its next call after a bulk insert that failed.
RestoreIgnoringFailure(pc, err, last) ==
    CASE pc = "find" -> "insert"
      [] pc = "insert" -> IF last \/ err THEN "delete" ELSE "insert"
      [] OTHER -> "done"

\* The order of the store calls of Trash.restore: the find of the records,
\* one bulk insert for each origin collection, the delete of the records.
\* A bulk insert that throws ends the call; last tells whether the origin
\* collection just written is the last one.
RestoreStepAfter(pc, err, last) ==
    CASE pc = "find" -> "insert"
      [] pc = "insert" -> IF err THEN "failed" ELSE IF last THEN "delete" ELSE "insert"
      [] OTHER -> "done"

---------------------------------------------------------------------------
(* Inputs *)

Pair(k, v) == <<k, v>>

\* Plain payloads: an optional _id, an optional _account, a name.
PlainBodies(ids, accounts) ==
    {idp \o acp \o <<Pair("name", "x")>> :
        idp \in {<<>>} \cup {<<Pair("_id", i)>> : i \in ids},
        acp \in {<<>>} \cup {<<Pair("_account", a)>> : a \in accounts}}

\* Payloads that name a protected field, alone and under $set / $unset.
OperatorBodies(ids) ==
    {<<Pair("_id", i), Pair("_createdBy", "eve")>> \o op :
        i \in ids,
        op \in {<<>>,
                <<Pair("$set", "_createdBy" :> "eve")>>,
                <<Pair("$set", "_created" :> 0)>>,
                <<Pair("$unset", "_createdBy" :> "")>>}}

\* The batches of 1..MaxBatch items drawn from bodies.
Batches(bodies) == UNION {[1..n -> bodies] : n \in 1..MaxBatch}

\* The <<body, id>> arguments of a single put: a payload that names its _id,
\* or one that does not, with and without the id argument.
PutArgs(ids, bodies) ==
    {<<b, "">> : b \in bodies}
      \cup {<<b, i>> : b \in {x \in bodies : ~Truthy(x, "_id")}, i \in ids}

\* Where clauses, as parsed: none, one on a plain field, one on _account.
Wheres == {EmptyDoc, "name" :> {"x"}, "_account" :> {"B"}}

\* Options without include and exclude, so that the routes honour every
\* collection.
OpenOptions == {[safeDelete |-> s, include |-> Undefined, exclude |-> Undefined] : s \in BOOLEAN}

---------------------------------------------------------------------------
(* Actions *)

NoReq == [op |-> "none"]
NoRes == [status |-> 0, value |-> EmptyDoc]

\* The state after construction with one of the given options.
InitWith(opts) ==
    /\ db = [c \in Collections |-> {}]
    /\ trash = {}
    /\ now = 0
    /\ issued = {}
    /\ options \in opts
    /\ req = NoReq
    /\ res = NoRes
    /\ sequel = FALSE

\* new DataServer(connector)
Init == InitWith({DefaultOptions})

\* new (DataServer.Options(options))(connector)
InitOptions == InitWith({DefaultOptions} \cup OpenOptions)

\* Time passes.
Tick ==
    /\ now < MaxClock
    /\ now' = now + 1
    /\ UNCHANGED <<db, trash, issued, options, req, res, sequel>>

\* put(account, collection, body, id) with a single payload.
Put(account, collection, body, id) ==
    \E fresh \in IF NeedsFreshId(body, id) THEN GenIds \ issued ELSE {""} :
        LET r == PutSingle(account, db[collection], body, id, fresh, now)
        IN  /\ issued' = IF NeedsFreshId(body, id) THEN issued \cup {fresh} ELSE issued
            /\ db' = [db EXCEPT ![collection] = r.coll]
            /\ req' = [op |-> "put", account |-> account, collection |-> collection,
                       body |-> body, id |-> id]
            /\ res' = [status |-> r.status, value |-> r.value]
            /\ sequel' = (/\ req.op = "put" /\ res.status = 0 /\ r.status = 0
                          /\ req.collection = collection
                          /\ req.body = body /\ req.id = id)
            /\ UNCHANGED <<trash, now, options>>

\* put(account, collection, body) with an array payload.
PutMany(account, collection, body) ==
    /\ FreshNeeded(account, body, 1) <= 1
    /\ \E fresh \in IF FreshNeeded(account, body, 1) = 1 THEN GenIds \ issued ELSE {""} :
        LET r == PutBatch(account, db[collection], body, fresh, now)
        IN  /\ issued' = IF fresh # "" THEN issued \cup {fresh} ELSE issued
            /\ db' = [db EXCEPT ![collection] = r.coll]
            /\ req' = [op |-> "putMany", account |-> account, collection |-> collection,
                       body |-> body, id |-> ""]
            /\ res' = [status |-> r.status, value |-> r.value]
            /\ sequel' = FALSE
            /\ UNCHANGED <<trash, now, options>>

\* get(account, collection, item, {where})
DirectGet(account, collection, item, where) ==
    /\ req' = [op |-> "get", account |-> account, collection |-> collection,
               item |-> item, where |-> where]
    /\ res' = [status |-> 0, value |-> Get(db[collection], item, where)]
    /\ sequel' = FALSE
    /\ UNCHANGED <<db, trash, now, issued, options>>

\* remove(account, collection, ids)
DirectRemove(account, collection, ids) ==
    LET r == Remove(account, db[collection], ids)
    IN  /\ db' = [db EXCEPT ![collection] = r.coll]
        /\ req' = [op |-> "remove", account |-> account, collection |-> collection,
                   ids |-> ids]
        /\ res' = [status |-> r.status, value |-> EmptyDoc]
        /\ sequel' = FALSE
        /\ UNCHANGED <<trash, now, issued, options>>

\* The answer of the two middlewares and the handler's test: the request is
\* refused with 401, or handled.  res.admitted tells which.
Refused(method, account, collection) ==
    ~Honoured(options, collection) \/ ~Admitted(method, options, account)

\* GET /data/:collection/:item?  The handler computes its result and returns
\* it to the router: it sends no response (status 0).
RouteGet(account, collection, item, where) ==
    /\ req' = [op |-> "GET", account |-> account, collection |-> collection,
               item |-> item, where |-> where]
    /\ res' = IF Refused("GET", account, collection)
              THEN [status |-> 401, value |-> {}, admitted |-> FALSE]
              ELSE [status |-> 0,
                    value |-> Find(db[collection], RouteGetSelector(account, item, where)),
                    admitted |-> TRUE]
    /\ sequel' = FALSE
    /\ UNCHANGED <<db, trash, now, issued, options>>

\* PUT /data/:collection/:item? with a single payload.
RoutePut(account, collection, body, item) ==
    /\ req' = [op |-> "PUT", account |-> account, collection |-> collection,
               body |-> body, id |-> item]
    /\ sequel' = FALSE
    /\ IF Refused("PUT", account, collection)
       THEN /\ res' = [status |-> 401, value |-> EmptyDoc, admitted |-> FALSE]
            /\ UNCHANGED <<db, issued>>
       ELSE \E fresh \in IF NeedsFreshId(body, item) THEN GenIds \ issued ELSE {""} :
              LET r == PutSingle(account, db[collection], body, item, fresh, now)
              IN  /\ issued' = IF NeedsFreshId(body, item) THEN issued \cup {fresh}
                               ELSE issued
                  /\ db' = [db EXCEPT ![collection] = r.coll]
                  /\ res' = [status |-> IF r.status = 0 THEN 200 ELSE r.status,
                             value |-> r.value, admitted |-> TRUE]
    /\ UNCHANGED <<trash, now, options>>

\* DELETE /data/:collection/:ids
RouteDelete(account, collection, param) ==
    /\ req' = [op |-> "DELETE", account |-> account, collection |-> collection,
               ids |-> Split(param)]
    /\ sequel' = FALSE
    /\ IF Refused("DELETE", account, collection)
       THEN /\ res' = [status |-> 401, value |-> EmptyDoc, admitted |-> FALSE]
            /\ UNCHANGED db
       ELSE LET r == Remove(account, db[collection], Split(param))
            IN  /\ db' = [db EXCEPT ![collection] = r.coll]
                /\ res' = [status |-> IF r.status = 0 THEN 204 ELSE r.status,
                           value |-> EmptyDoc, admitted |-> TRUE]
    /\ UNCHANGED <<trash, now, issued, options>>

\* Trash.put(account, col, ids): ids is the set of ids a string or an array
\* names.  res.value keeps the documents that were live under those ids when
\* the call began.
TrashPutIds(account, col, ids) ==
    /\ req' = [op |-> "Trash.put", account |-> account, collection |-> col, ids |-> ids]
    /\ sequel' = FALSE
    /\ IF ids = {}
       THEN /\ res' = [status |-> 500, value |-> {}]
            /\ UNCHANGED <<db, trash>>
       ELSE \E body \in Orders(Find(db[col], "_id" :> ids)) :
              LET r == TrashPut(trash, db[col], account, col, body, now)
              IN  /\ trash' = r.trash
                  /\ db' = [db EXCEPT ![col] = r.coll]
                  /\ res' = [status |-> r.status, value |-> Find(db[col], "_id" :> ids)]
    /\ UNCHANGED <<now, issued, options>>

\* Trash.restore(ids): ids is the set of trash ids a string or an array
\* names, {} standing for none.
TrashRestoreIds(ids) ==
    /\ req' = [op |-> "Trash.restore", ids |-> ids]
    /\ sequel' = (/\ req.op = "Trash.put" /\ res.status = 0
                  /\ \E d \in res.value : ids = {TrashId(req.collection, d["_id"])})
    /\ IF ids = {}
       THEN /\ res' = [status |-> 500, value |-> {}]
            /\ UNCHANGED <<db, trash>>
       ELSE \E body \in Orders(Find(trash, "_id" :> ids)) :
              LET r == TrashRestore(db, trash, ids, body)
              IN  /\ db' = r.db
                  /\ trash' = r.trash
                  /\ res' = [status |-> r.status, value |-> {}]
    /\ UNCHANGED <<now, issued, options>>

\* Trash.pluck(col, id)
TrashPluck(col, id) ==
    /\ req' = [op |-> "Trash.pluck", collection |-> col, id |-> id]
    /\ sequel' = FALSE
    /\ LET found == Find(trash, "_id" :> {id})
       IN  IF found = {}
           THEN /\ res' = [status |-> 500, value |-> {}]
                /\ UNCHANGED db
           ELSE LET r == InsertOne(db[col], CHOOSE item \in found : TRUE)
                IN  /\ db' = [db EXCEPT ![col] = r.coll]
                    /\ res' = [status |-> IF r.err THEN 500 ELSE 0, value |-> {}]
    /\ UNCHANGED <<trash, now, issued, options>>

\* Trash.empty(col, oid, _id)
TrashEmpty(col, oids, tids) ==
    /\ req' = [op |-> "Trash.empty", collection |-> col, oids |-> oids, tids |-> tids]
    /\ sequel' = FALSE
    /\ trash' = DeleteMany(trash, EmptyQuery(col, oids, tids))
    /\ res' = [status |-> 0, value |-> {}]
    /\ UNCHANGED <<db, now, issued, options>>

\* GET /data/trash/:item?  req._availableAccounts is what access control left
\* on the request, [] when it left nothing.  The response is 200 with the
\* records found (for an item, results[0] || {} is the only one or nothing).
RouteTrashGet(account, item, where) ==
    /\ req' = [op |-> "Trash.GET", account |-> account, item |-> item, where |-> where]
    /\ res' = [status |-> 200,
               value |-> Find(trash, TrashListSelector(account, acl("read", account.userId),
                                                       item, where))]
    /\ sequel' = FALSE
    /\ UNCHANGED <<db, trash, now, issued, options>>

\* POST /data/trash/:item?  restore(req.params.item); item = "" stands for a
\* path that names no item.
RouteTrashPost(item) ==
    /\ req' = [op |-> "Trash.POST", item |-> item]
    /\ sequel' = FALSE
    /\ IF item = ""
       THEN /\ res' = [status |-> 500, value |-> {}]
            /\ UNCHANGED <<db, trash>>
       ELSE \E body \in Orders(Find(trash, "_id" :> {item})) :
              LET r == TrashRestore(db, trash, {item}, body)
              IN  /\ db' = r.db
                  /\ trash' = r.trash
                  /\ res' = [status |-> IF r.status = 0 THEN 204 ELSE r.status,
                             value |-> {}]
    /\ UNCHANGED <<now, issued, options>>

\* DELETE /data/trash/:col?/:ids?  empty(req.params.col, req.params.ids); ""
\* stands for a path parameter that is not given.
RouteTrashDelete(account, col, param) ==
    /\ req' = [op |-> "Trash.DELETE", account |-> account, collection |-> col,
               ids |-> IF param = "" THEN {} ELSE Split(param)]
    /\ sequel' = FALSE
    /\ IF ~TrashDeleteAdmitted(account, col)
       THEN /\ res' = [status |-> 401, value |-> {}]
            /\ UNCHANGED trash
       ELSE /\ trash' = DeleteMany(trash,
                          EmptyQuery(col, IF param = "" THEN {} ELSE Split(param), {}))
            /\ res' = [status |-> 204, value |-> {}]
    /\ UNCHANGED <<db, now, issued, options>>

\* remove(account, collection, ids, descriptors): remove declares three
\* parameters, so a fourth argument is not read.
RemoveSupplying(account, collection, ids, descriptors) ==
    LET r == Remove(account, db[collection], ids)
    IN  /\ db' = [db EXCEPT ![collection] = r.coll]
        /\ req' = [op |-> "remove", account |-> account, collection |-> collection,
                   ids |-> ids, descriptors |-> descriptors]
        /\ res' = [status |-> r.status, value |-> EmptyDoc]
        /\ sequel' = FALSE
        /\ UNCHANGED <<trash, now, issued, options>>

\* PUT /data/:collection/:item? with an array payload.
RoutePutMany(account, collection, body) ==
    /\ FreshNeeded(account, body, 1) <= 1
    /\ req' = [op |-> "PUTMany", account |-> account, collection |-> collection,
               body |-> body, id |-> ""]
    /\ sequel' = FALSE
    /\ IF Refused("PUT", account, collection)
       THEN /\ res' = [status |-> 401, value |-> EmptyDoc, admitted |-> FALSE]
            /\ UNCHANGED <<db, issued>>
       ELSE \E fresh \in IF FreshNeeded(account, body, 1) = 1 THEN GenIds \ issued ELSE {""} :
              LET r == PutBatch(account, db[collection], body, fresh, now)
              IN  /\ issued' = IF fresh # "" THEN issued \cup {fresh} ELSE issued
                  /\ db' = [db EXCEPT ![collection] = r.coll]
                  /\ res' = [status |-> IF r.status = 0 THEN 200 ELSE r.status,
                             value |-> r.value, admitted |-> TRUE]
    /\ UNCHANGED <<trash, now, options>>

\* GET /data/account/:item?  The two middlewares see the path with the
\* collection "account".  The handler refuses an item outside the caller's
\* accounts; otherwise it reaches db.collection(collection), where
\* collection is not declared: the ReferenceError is caught and answered
\* with status 500.
RouteGetAccount(account, item) ==
    /\ req' = [op |-> "GET account", account |-> account, collection |-> "account",
               item |-> item]
    /\ res' = IF ~Honoured(options, "account")
              THEN [status |-> 401, value |-> {}, admitted |-> FALSE]
              ELSE IF /\ item # "" /\ ~account.super
                      /\ item \notin AvailableAccounts("GET", options, account)
              THEN [status |-> 401, value |-> {}, admitted |-> FALSE]
              ELSE [status |-> 500, value |-> {}, admitted |-> TRUE]
    /\ sequel' = FALSE
    /\ UNCHANGED <<db, trash, now, issued, options>>

---------------------------------------------------------------------------
(* Trash.put and Trash.restore, one store call at a time *)

\* A call of Trash.put or Trash.restore is between two of its store calls.
\* req keeps the call's locals: pc (the store call that comes next), body,
\* date, and for the claims the documents or records the call found.
InFlight ==
    "pc" \in DOMAIN req
        /\ req.pc \in {"find", "bulk", "insert", "delete", "upsert", "findOne"}

Idle == ~InFlight

\* Trash.put(account, col, ids) up to its first await: the clock is read,
\* an empty list is refused.  given tells that documents were passed in
\* place of ids: they are the body, and no find is issued.
TrashPutCall(account, col, ids, given) ==
    /\ Idle
    /\ sequel' = FALSE
    /\ IF ids = {}
       THEN /\ req' = [op |-> "Trash.put", account |-> account, collection |-> col,
                       ids |-> ids, given |-> given, pc |-> "failed", date |-> now,
                       body |-> <<>>, targets |-> {}]
            /\ res' = [status |-> 500, value |-> {}]
       ELSE /\ \E body \in IF given THEN Orders({"_id" :> i : i \in ids}) ELSE {<<>>} :
                 req' = [op |-> "Trash.put", account |-> account, collection |-> col,
                         ids |-> ids, given |-> given,
                         pc |-> IF given THEN TrashPutStepAfter("find") ELSE "find",
                         date |-> now, body |-> body,
                         targets |-> Find(db[col], "_id" :> ids)]
            /\ res' = [status |-> 0, value |-> {}]
    /\ UNCHANGED <<db, trash, now, issued, options>>

\* db.collection(col).find({_id:{$in:ids}}).toArray()
TrashPutFind ==
    /\ "pc" \in DOMAIN req /\ req.op = "Trash.put" /\ req.pc = "find"
    /\ \E body \in Orders(Find(db[req.collection], "_id" :> req.ids)) :
           req' = [req EXCEPT !.body = body, !.pc = TrashPutStepAfter("find")]
    /\ sequel' = FALSE
    /\ UNCHANGED <<db, trash, now, issued, options, res>>

\* trashCollection.bulkWrite(writes).  The store may fail after any number
\* k of the writes (failed, and k < Len(body) or the answer was lost); an
\* ordered bulk write keeps the writes it had applied.
TrashPutBulk(k, failed) ==
    /\ "pc" \in DOMAIN req /\ req.op = "Trash.put" /\ req.pc = "bulk"
    /\ k \in 0..Len(req.body) /\ (~failed => k = Len(req.body))
    /\ LET r == TrashBulk(trash, req.account, req.collection,
                          SubSeq(req.body, 1, k), 1, req.date)
       IN  /\ trash' = r.coll
           /\ IF r.err \/ failed
              THEN /\ req' = [req EXCEPT !.pc = "failed"]
                   /\ res' = [status |-> 500, value |-> {}]
              ELSE /\ req' = [req EXCEPT !.pc = TrashPutStepAfter("bulk")]
                   /\ res' = [status |-> 0, value |-> {}]
    /\ sequel' = FALSE
    /\ UNCHANGED <<db, now, issued, options>>

\* db.collection(col).deleteMany({_id:{$in:deleteIds}}).  The store may fail
\* having deleted only the documents with the ids in done.
TrashPutDelete(done, failed) ==
    /\ "pc" \in DOMAIN req /\ req.op = "Trash.put" /\ req.pc = "delete"
    /\ LET deleteIds == {req.body[i]["_id"] : i \in 1..Len(req.body)}
       IN  /\ done \subseteq deleteIds /\ (~failed => done = deleteIds)
           /\ db' = [db EXCEPT ![req.collection] = DeleteMany(@, "_id" :> done)]
    /\ IF failed
       THEN /\ req' = [req EXCEPT !.pc = "failed"]
            /\ res' = [status |-> 500, value |-> {}]
       ELSE /\ req' = [req EXCEPT !.pc = TrashPutStepAfter("delete")]
            /\ res' = [status |-> 0, value |-> {}]
    /\ sequel' = FALSE
    /\ UNCHANGED <<trash, now, issued, options>>

\* Trash.restore(ids) up to its first await: missing or empty ids are
\* refused.  before keeps the trash as the call found it.
TrashRestoreCall(ids) ==
    /\ Idle
    /\ sequel' = FALSE
    /\ req' = [op |-> "Trash.restore", ids |-> ids,
               pc |-> IF ids = {} THEN "failed" ELSE "find",
               body |-> <<>>, cols |-> <<>>, k |-> 1, before |-> trash]
    /\ res' = [status |-> IF ids = {} THEN 500 ELSE 0, value |-> {}]
    /\ UNCHANGED <<db, trash, now, issued, options>>

\* trashCollection.find({_id:{$in:ids}}).toArray(), and the loop that groups
\* the snapshots by origin collection.
TrashRestoreFind ==
    /\ "pc" \in DOMAIN req /\ req.op = "Trash.restore" /\ req.pc = "find"
    /\ \E body \in Orders(Find(trash, "_id" :> req.ids)) :
         LET cols == RestoreCols(body, Len(body))
         IN  req' = [req EXCEPT !.body = body, !.cols = cols,
                                !.pc = IF Len(cols) = 0
                                       THEN "delete"
                                       ELSE RestoreStepAfter("find", FALSE, FALSE)]
    /\ sequel' = FALSE
    /\ UNCHANGED <<db, trash, now, issued, options, res>>

\* db.collection(col).bulkWrite(writes[col]) for the k-th origin collection.
TrashRestoreInsert ==
    /\ "pc" \in DOMAIN req /\ req.op = "Trash.restore" /\ req.pc = "insert"
    /\ LET col == req.cols[req.k]
           r == RestoreInserts(db[col], col, req.body, 1)
           pc == RestoreStepAfter("insert", r.err, req.k = Len(req.cols))
       IN  /\ db' = [db EXCEPT ![col] = r.coll]
           /\ req' = [req EXCEPT !.pc = pc, !.k = @ + 1]
           /\ res' = [status |-> IF pc = "failed" THEN 500 ELSE 0, value |-> {}]
    /\ sequel' = FALSE
    /\ UNCHANGED <<trash, now, issued, options>>

\* trashCollection.deleteMany({_id:{$in:ids}})
TrashRestoreDelete ==
    /\ "pc" \in DOMAIN req /\ req.op = "Trash.restore" /\ req.pc = "delete"
    /\ trash' = DeleteMany(trash, "_id" :> req.ids)
    /\ req' = [req EXCEPT !.pc = RestoreStepAfter("delete", FALSE, FALSE)]
    /\ res' = [status |-> 0, value |-> {}]
    /\ sequel' = FALSE
    /\ UNCHANGED <<db, now, issued, options>>

\* The process stops between two store calls of a call in flight.
Crash ==
    /\ InFlight
    /\ req' = [req EXCEPT !.pc = "crashed"]
    /\ res' = [status |-> 500, value |-> {}]
    /\ sequel' = FALSE
    /\ UNCHANGED <<db, trash, now, issued, options>>

\* put(account, collection, body, id) with a single payload up to its
\* findOneAndUpdate: the selector and the modifier, with its dates, are
\* fixed here; the store has not been written yet.
PutCall(account, collection, body, id) ==
    /\ Idle
    /\ \E fresh \in IF NeedsFreshId(body, id) THEN GenIds \ issued ELSE {""} :
         /\ issued' = IF NeedsFreshId(body, id) THEN issued \cup {fresh} ELSE issued
         /\ req' = [op |-> "put", account |-> account, collection |-> collection,
                    body |-> body, id |-> id,
                    pc |-> IF AccountAdmitted(account, body) THEN "upsert" ELSE "failed",
                    target |-> TargetId(body, id, fresh), date |-> now]
    /\ res' = [status |-> IF AccountAdmitted(account, body) THEN 0 ELSE 401,
               value |-> EmptyDoc]
    /\ sequel' = FALSE
    /\ UNCHANGED <<db, trash, now, options>>

\* findOneAndUpdate(selector, modifier, options) of the put in flight
\* reaches the store.  landed records the write the store applied last.
PutLand ==
    /\ "pc" \in DOMAIN req /\ req.op = "put" /\ req.pc = "upsert"
    /\ LET modifier == constructModifier(DefaultAccount(req.account, req.body),
                                         req.account, req.date)
           r == Upsert(db[req.collection], req.target, modifier)
       IN  IF r.err
           THEN /\ req' = [req EXCEPT !.pc = "failed"]
                /\ res' = [status |-> 500, value |-> EmptyDoc]
                /\ UNCHANGED db
           ELSE /\ db' = [db EXCEPT ![req.collection] = r.coll]
                /\ req' = [req EXCEPT !.pc = IF r.pre # {} THEN "done" ELSE "findOne"]
                /\ res' = [status |-> 0,
                           value |-> IF r.pre # {} THEN CHOOSE d \in r.pre : TRUE
                                     ELSE EmptyDoc,
                           landed |-> [account |-> req.account,
                                       collection |-> req.collection,
                                       body |-> req.body, target |-> req.target,
                                       date |-> req.date]]
    /\ sequel' = FALSE
    /\ UNCHANGED <<trash, now, issued, options>>

\* findOne({_id: selector._id}) after an upsert that returned no document.
PutRead ==
    /\ "pc" \in DOMAIN req /\ req.op = "put" /\ req.pc = "findOne"
    /\ LET found == Find(db[req.collection], "_id" :> {req.target})
       IN  res' = [res EXCEPT !.value = IF found = {} THEN EmptyDoc
                                        ELSE CHOOSE d \in found : TRUE]
    /\ req' = [req EXCEPT !.pc = "done"]
    /\ sequel' = FALSE
    /\ UNCHANGED <<db, trash, now, issued, options>>

\* Another put, of a single payload with an id, whose findOneAndUpdate
\* reaches the store while a call is in flight; its modifier was built at
\* date, now or earlier.
PutDuring(account, collection, body, id, date) ==
    /\ InFlight
    /\ ~NeedsFreshId(body, id)
    /\ date \in 0..now
    /\ LET r == PutSingle(account, db[collection], body, id, "", date)
       IN  /\ db' = [db EXCEPT ![collection] = r.coll]
           /\ res' = IF r.status # 0 THEN res
                     ELSE [status |-> res.status, value |-> res.value,
                           landed |-> [account |-> account, collection |-> collection,
                                       body |-> body, target |-> TargetId(body, id, ""),
                                       date |-> date]]
    /\ UNCHANGED <<req, sequel, trash, now, issued, options>>

\* Another Trash.put(account, col, ids), whole, while a call is in flight.
TrashPutDuring(account, col, ids) ==
    /\ InFlight
    /\ ids # {}
    /\ \E body \in Orders(Find(db[col], "_id" :> ids)) :
         LET r == TrashPut(trash, db[col], account, col, body, now)
         IN  /\ trash' = r.trash
             /\ db' = [db EXCEPT ![col] = r.coll]
    /\ UNCHANGED <<req, res, sequel, now, issued, options>>

---------------------------------------------------------------------------
(* Specifications *)

\* Single puts by every kind of caller, in one collection.
NextPut ==
    \/ Tick
    \/ \E account \in {u1, u2, root}, collection \in {"widgets"},
          args \in PutArgs({"w1"}, PlainBodies({"w1"}, {"A", "B"}) \cup OperatorBodies({"w1"})) :
            Put(account, collection, args[1], args[2])

SpecPut == Init /\ [][NextPut]_vars

\* Batch puts.
BatchBodies ==
    {<<Pair("_id", "w1"), Pair("name", "x")>>,
     <<Pair("_id", "w2"), Pair("_account", "B"), Pair("name", "x")>>,
     <<Pair("name", "x")>>}

NextBatch ==
    \/ Tick
    \/ \E account \in {u1, u2}, body \in Batches(BatchBodies) :
            PutMany(account, "widgets", body)

SpecBatch == Init /\ [][NextBatch]_vars

\* The routes and the methods behind them, under every option set.
NextRoutes ==
    \/ Tick
    \/ \E account \in {u1, u2}, body \in PlainBodies({"w1"}, {}) :
            Put(account, "widgets", body, "")
    \/ \E account \in Callers, item \in {"", "w1"}, where \in Wheres :
            \/ DirectGet(account, "widgets", item, where)
            \/ RouteGet(account, "widgets", item, where)
    \/ \E account \in Callers, body \in PlainBodies({"w1"}, {"B"}) :
            RoutePut(account, "widgets", body, "")
    \/ \E account \in Callers, param \in {"w1", "w1,w2"} :
            \/ RouteDelete(account, "widgets", param)
            \/ DirectRemove(account, "widgets", Split(param))
    \/ \E account \in Callers, item \in {"", "A", "B"} :
            RouteGetAccount(account, item)

SpecRoutes == InitOptions /\ [][NextRoutes]_vars

\* The trash: one document id in each of two collections.
TrashBodies == {<<Pair("_id", "w1"), Pair("name", "x")>>}

TrashIdSets ==
    {{TrashId(c, "w1")} : c \in Collections}
      \cup {{TrashId("widgets", "w1"), TrashId("gadgets", "w1")}, {}}

EmptyArgs ==
    {<<"", {}, {}>>, <<"widgets", {}, {}>>, <<"widgets", {"w1"}, {}>>,
     <<"", {}, {TrashId("gadgets", "w1")}>>}

NextTrash ==
    \/ Tick
    \/ \E collection \in Collections, body \in TrashBodies :
            Put(u1, collection, body, "")
    \/ \E collection \in Collections, ids \in {{"w1"}, Split("w1,w2"), {}} :
            TrashPutIds(u1, collection, ids)
    \/ \E ids \in TrashIdSets : TrashRestoreIds(ids)
    \/ \E args \in EmptyArgs : TrashEmpty(args[1], args[2], args[3])

SpecTrash == Init /\ [][NextTrash]_vars

\* The trash with pluck and remove as well; the clock stands still.
NextTrashAll ==
    \/ \E collection \in Collections, body \in TrashBodies :
            Put(u1, collection, body, "")
    \/ \E account \in {u1, u2}, collection \in Collections, ids \in {{"w1"}, Split("w1,w2")} :
            \/ TrashPutIds(account, collection, ids)
            \/ DirectRemove(account, collection, ids)
    \/ \E ids \in TrashIdSets : TrashRestoreIds(ids)
    \/ \E collection \in Collections, id \in UNION TrashIdSets : TrashPluck(collection, id)
    \/ \E args \in EmptyArgs : TrashEmpty(args[1], args[2], args[3])

SpecTrashAll == Init /\ [][NextTrashAll]_vars

\* The routes of the trash: a document of account A in one collection and
\* one of account B in the other are put, moved to the trash, listed,
\* restored and purged over HTTP.
TrashWheres == {EmptyDoc, "col" :> {"widgets"}}

TrashPaths == {<<"", "">>, <<"widgets", "">>, <<"widgets", "w1">>, <<"gadgets", "w1,w2">>}

NextTrashRoutes ==
    \/ Put(u1, "widgets", <<Pair("name", "x")>>, "w1")
    \/ Put(u2, "gadgets", <<Pair("name", "x")>>, "w2")
    \/ \E collection \in Collections, ids \in {{"w1"}, {"w2"}} :
            TrashPutIds(u1, collection, ids)
    \/ \E account \in {u1, u2, u4, root},
          item \in {"", TrashId("widgets", "w1"), TrashId("gadgets", "w2")},
          where \in TrashWheres :
            RouteTrashGet(account, item, where)
    \/ \E item \in {"", TrashId("widgets", "w1"), TrashId("gadgets", "w2")} :
            RouteTrashPost(item)
    \/ \E account \in {u1, root}, path \in TrashPaths :
            RouteTrashDelete(account, path[1], path[2])

SpecTrashRoutes == Init /\ [][NextTrashRoutes]_vars

\* Documents that refer to one another: widgets, and gadgets that name a
\* widget in their widgetId field.
Descriptors == {{}, {[collection |-> "gadgets", field |-> "widgetId"]}}

NextRefs ==
    \/ Tick
    \/ \E id \in Ids : Put(u1, "widgets", <<Pair("name", "x")>>, id)
    \/ \E id \in Ids : Put(u1, "gadgets", <<Pair("widgetId", id)>>, "w1")
    \/ \E ids \in {{"w1"}, {"w1", "w2"}}, descriptors \in Descriptors :
            RemoveSupplying(u1, "widgets", ids, descriptors)

SpecRefs == Init /\ [][NextRefs]_vars

\* Creation and update by callers who may write their own account: the
\* payload with and without an _id, the call with and without an id argument.
NextCreate ==
    \/ Tick
    \/ \E account \in {u1, u2}, body \in PlainBodies({"w1"}, {}), id \in {"", "w2"} :
            Put(account, "widgets", body, id)

SpecCreate == Init /\ [][NextCreate]_vars

\* Calls that lack what they need, next to calls that have it: a remove
\* without ids, a put of an empty batch, a restore without ids.
UsageBatches == {<<>>, <<<<Pair("_id", "w2"), Pair("name", "x")>>>>}

NextUsage ==
    \/ Tick
    \/ Put(u1, "widgets", <<Pair("name", "x")>>, "w1")
    \/ TrashPutIds(u1, "widgets", {"w1"})
    \/ \E ids \in {{}, {"w2"}} : DirectRemove(u1, "widgets", ids)
    \/ \E body \in UsageBatches :
            \/ PutMany(u1, "widgets", body)
            \/ RoutePutMany(u1, "widgets", body)
    \/ \E ids \in {{}, {TrashId("widgets", "w1")}} : TrashRestoreIds(ids)
    \/ \E item \in {"", TrashId("widgets", "w1")} : RouteTrashPost(item)

SpecUsage == InitOptions /\ [][NextUsage]_vars

\* Trash.put and Trash.restore one store call at a time, with store
\* failures and crashes; no other call starts while one is in flight.  The
\* clock stands still.
NextSteps ==
    \/ \E target \in {<<"widgets", "w1">>, <<"widgets", "w2">>, <<"gadgets", "w1">>} :
            Idle /\ Put(u1, target[1], <<Pair("name", "x")>>, target[2])
    \/ \E collection \in Collections, ids \in {{"w1"}, {"w1", "w2"}, {}}, given \in BOOLEAN :
            TrashPutCall(u1, collection, ids, given)
    \/ TrashPutFind
    \/ \E k \in 0..MaxBatch, failed \in BOOLEAN : TrashPutBulk(k, failed)
    \/ \E done \in SUBSET Ids, failed \in BOOLEAN : TrashPutDelete(done, failed)
    \/ \E ids \in TrashIdSets : TrashRestoreCall(ids)
    \/ TrashRestoreFind
    \/ TrashRestoreInsert
    \/ TrashRestoreDelete
    \/ Crash

SpecSteps == Init /\ [][NextSteps]_vars

\* Trashing again: a document is put back under its id and trashed again,
\* by either caller, at either time.
NextRetrash ==
    \/ Tick
    \/ \E collection \in Collections : Put(u1, collection, <<Pair("name", "x")>>, "w1")
    \/ \E account \in {u1, u2}, collection \in Collections :
            TrashPutIds(account, collection, {"w1"})

SpecRetrash == Init /\ [][NextRetrash]_vars

\* Partial documents for the merge: a plain field and the $set and $unset
\* operators, in either order.
MergeBodies ==
    {<<Pair("name", "x")>>,
     <<Pair("$set", "color" :> "red")>>,
     <<Pair("name", "x"), Pair("$set", "color" :> "red")>>,
     <<Pair("$set", "color" :> "red"), Pair("name", "x")>>,
     <<Pair("$unset", "color" :> ""), Pair("name", "x")>>,
     <<Pair("_createdBy", "eve"), Pair("size", "s"), Pair("$unset", "name" :> "")>>}

NextMerge ==
    \/ Tick
    \/ \E body \in MergeBodies, id \in Ids : Put(u1, "widgets", body, id)

SpecMerge == Init /\ [][NextMerge]_vars

---------------------------------------------------------------------------
(* Claims about put *)

IsPut(r) == r.op \in {"put", "putMany"}

SameField(d, e, k) == (Has(d, k) <=> Has(e, k)) /\ (Has(d, k) => d[k] = e[k])

\* The payload of a single put names an _account the caller cannot write.
ForeignPut(r) ==
    /\ r.op = "put"
    /\ Truthy(r.body, "_account")
    /\ Val(r.body, "_account") \notin WritableAccounts(r.account)

\* C2 (as stated): a put by a non-superuser never modifies a stored document
\* whose _account is outside the caller's writable set, and never moves a
\* document to or from an account outside that set.
C2_PutRespectsStoredAccount ==
    [][(IsPut(req') /\ ~req'.account.super) =>
        \A d \in db[req'.collection] :
            \A e \in ById(db'[req'.collection], d["_id"]) :
                /\ e # d => d["_account"] \in WritableAccounts(req'.account)
                /\ e["_account"] # d["_account"] =>
                       {d["_account"], e["_account"]} \subseteq WritableAccounts(req'.account)
      ]_vars

\* C3: a single put whose payload carries an _account outside the caller's
\* writable set fails with status 401 and changes neither a collection nor
\* the trash.
C3_ForeignPutRefused ==
    [][ForeignPut(req') => (res'.status = 401 /\ db' = db /\ trash' = trash)]_vars

\* C3 witness: a foreign put was refused while the store held documents.
C3_Witness ==
    ForeignPut(req) /\ res.status = 401 /\ \E c \in Collections : db[c] # {}

\* C5 (as stated): a put leaves _id, _created and _createdBy of every
\* existing document as they were.
C5_ProtectedFieldsKept ==
    [][IsPut(req') =>
        \A d \in db[req'.collection] :
            \E e \in ById(db'[req'.collection], d["_id"]) :
                SameField(d, e, "_created") /\ SameField(d, e, "_createdBy")
      ]_vars

\* C6: when a put that succeeded is repeated with the same payload, id
\* argument and collection, the repeat succeeds if the caller is the same
\* one, and a repeat that succeeds leaves exactly one document with the
\* target id, with the _created and _createdBy it had after the first put
\* and a _modified that is not earlier; and no put ever moves a document's
\* _modified back.
C6_PutTwice ==
    [][/\ (/\ req.op = "put" /\ res.status = 0 /\ req'.op = "put"
           /\ req'.body = req.body /\ req'.id = req.id
           /\ req'.collection = req.collection
           /\ ~NeedsFreshId(req.body, req.id))
          => /\ req'.account = req.account => res'.status = 0
             /\ res'.status = 0 =>
                  LET id == TargetId(req.body, req.id, "")
                      before == ById(db[req.collection], id)
                      after == ById(db'[req.collection], id)
                  IN  /\ Cardinality(before) = 1 /\ Cardinality(after) = 1
                      /\ \A d \in before, e \in after :
                             /\ SameField(d, e, "_created")
                             /\ SameField(d, e, "_createdBy")
                             /\ e["_modified"] >= d["_modified"]
       /\ IsPut(req') =>
             \A d \in db[req'.collection] :
                 \A e \in ById(db'[req'.collection], d["_id"]) :
                     e["_modified"] >= d["_modified"]
      ]_vars

\* C6 witness: a put was repeated, and the repeat came later than the
\* document's creation.
C6_Witness ==
    /\ req.op = "put" /\ sequel /\ res.status = 0
    /\ \E d \in ById(db[req.collection], TargetId(req.body, req.id, "")) :
           d["_modified"] > d["_created"]

---------------------------------------------------------------------------
(* Claims about the routes *)

\* C1 (as stated): a get or a remove by a non-superuser never returns, and
\* never deletes, a document whose _account is outside the caller's
\* permitted accounts (read for get, owner for a delete).
C1_ScopedReadsAndDeletes ==
    [][/\ (req'.op \in {"get", "GET"} /\ ~req'.account.super) =>
              \A d \in res'.value : d["_account"] \in acl("read", req'.account.userId)
       /\ (req'.op \in {"remove", "DELETE"} /\ ~req'.account.super) =>
              \A d \in db[req'.collection] \ db'[req'.collection] :
                  d["_account"] \in acl("owner", req'.account.userId)
      ]_vars

\* C9 (as stated): with safeDelete on, a DELETE deletes nothing for good:
\* every document of the caller's account that was live under one of the ids
\* has afterwards a TrashRecord K::id with col, oid and its snapshot, and is
\* no longer found in K; with safeDelete off the documents are deleted and
\* the trash is as it was.
C9_DeleteGoesToTrash ==
    [][(req'.op = "DELETE" /\ res'.status = 204) =>
        \A d \in Find(db[req'.collection], RemoveSelector(req'.account, req'.ids)) :
            /\ ById(db'[req'.collection], d["_id"]) = {}
            /\ IF options.safeDelete
               THEN \E r \in trash' :
                        /\ r["_id"] = TrashId(req'.collection, d["_id"])
                        /\ r["col"] = req'.collection
                        /\ r["oid"] = d["_id"]
                        /\ r["o"] = d
               ELSE trash' = trash
      ]_vars

\* The level the claim names for a method.
ClaimedLevel(method, opts) ==
    CASE method = "PUT" -> "write"
      [] method = "DELETE" -> IF opts.safeDelete THEN "write" ELSE "owner"
      [] OTHER -> "read"

\* C10 (as stated): a request that the collection gate passes on is admitted
\* exactly when the caller is a superuser or holds, on the session account,
\* the level read for a GET, write for a PUT, owner for a DELETE with
\* safeDelete off and write for a DELETE with safeDelete on.
C10_LevelPerMethod ==
    (req.op \in {"GET", "PUT", "DELETE"} /\ Honoured(options, req.collection)) =>
        (res.admitted <=>
            \/ req.account.super
            \/ req.account.id \in acl(ClaimedLevel(req.op, options), req.account.userId))

---------------------------------------------------------------------------
(* Claims about batches *)

\* The items of a batch whose _account the caller cannot write.
Foreign(account, body) ==
    {i \in 1..Len(body) :
        Truthy(body[i], "_account")
          /\ Val(body[i], "_account") \notin WritableAccounts(account)}

\* C4 (as stated): a batch of N >= 1 items, M of them foreign, raises no
\* error and answers counts that add up to no more than the N - M upserts it
\* issued.
C4_BatchPartialSuccess ==
    req.op = "putMany" =>
        /\ res.status = 0
        /\ res.value.upsertedCount + res.value.modifiedCount
             <= Len(req.body) - Cardinality(Foreign(req.account, req.body))

---------------------------------------------------------------------------
(* Claims about the trash *)

\* C7: Trash.put of a live document D followed by Trash.restore of the trash
\* id K::D._id succeeds, leaves D, field for field, as the one document with
\* its id in K, and leaves no TrashRecord for it.
C7_TrashRoundTrip ==
    [][(req.op = "Trash.put" /\ res.status = 0 /\ req'.op = "Trash.restore") =>
        \A d \in res.value :
            req'.ids = {TrashId(req.collection, d["_id"])} =>
                /\ res'.status = 0
                /\ ById(db'[req.collection], d["_id"]) = {d}
                /\ Find(trash', ("col" :> {req.collection}) @@ ("oid" :> {d["_id"]})) = {}
                /\ Find(trash', "_id" :> req'.ids) = {}
      ]_vars

\* C7 witness: a restore that followed the Trash.put of the document it
\* names has put a document back that was modified after its creation.
C7_Witness ==
    /\ req.op = "Trash.restore" /\ sequel /\ res.status = 0
    /\ \E c \in Collections : \E d \in db[c] :
           req.ids = {TrashId(c, d["_id"])} /\ d["_modified"] > d["_created"]

\* C8 (as stated): while a TrashRecord for (col, oid) exists, col holds no
\* document with the _id oid.
C8_LiveOrTrashed ==
    \A r \in trash : ById(db[r["col"]], r["oid"]) = {}

---------------------------------------------------------------------------
(* Claims about the routes of the trash *)

\* The account a TrashRecord belongs to: that of the document it holds.
RecordAccount(r) == r["o"]["_account"]

\* C11 (as stated): a trash list request by a caller who is not a superuser
\* answers only TrashRecords of accounts the caller may read, and answers
\* 401 when the record it names belongs to another account.
C11_TrashListScoped ==
    (req.op = "Trash.GET" /\ ~req.account.super) =>
        /\ \A r \in res.value : RecordAccount(r) \in acl("read", req.account.userId)
        /\ (\E r \in trash : /\ r["_id"] = req.item
                             /\ RecordAccount(r) \notin acl("read", req.account.userId))
             => res.status = 401

\* C12: a purge that names no collection by a caller who is not a superuser
\* is answered 401 and leaves the trash as it was, and a superuser's empties
\* the trash; a purge that names a collection deletes, for a caller who is
\* not a superuser, only TrashRecords of that collection; no purge touches a
\* collection.
C12_UnscopedPurgePrivileged ==
    [][req'.op = "Trash.DELETE" =>
        /\ db' = db
        /\ (req'.collection = "" /\ ~req'.account.super) =>
               (res'.status = 401 /\ trash' = trash)
        /\ (req'.collection = "" /\ req'.account.super) =>
               (res'.status = 204 /\ trash' = {})
        /\ (req'.collection # "" /\ ~req'.account.super) =>
               \A r \in trash \ trash' : r["col"] = req'.collection
      ]_vars

\* C12 witness: an unscoped purge was refused while the trash held records
\* of both collections.
C12_Witness ==
    /\ req.op = "Trash.DELETE" /\ req.collection = "" /\ ~req.account.super
    /\ res.status = 401
    /\ \A c \in Collections : \E r \in trash : r["col"] = c


---------------------------------------------------------------------------
(* Claims about the collection gate *)

\* The refusal the claim describes: the collection is named in exclude, or
\* include is defined and does not name it.
ClaimedRefusal(opts, collection) ==
    \/ (opts.exclude.defined /\ collection \in opts.exclude.names)
    \/ (opts.include.defined /\ collection \notin opts.include.names)

\* C13 (as stated): a /data/{collection} request of a superuser, whom the
\* handlers always admit, is refused exactly when the collection is named in
\* options.exclude or options.include is defined and does not name it.
C13_GateHonours ==
    (req.op \in {"GET", "PUT", "DELETE"} /\ req.account.super) =>
        (res.admitted <=> ~ClaimedRefusal(options, req.collection))


---------------------------------------------------------------------------
(* Claims about references *)

\* The documents that refer to the candidate id under one of the
\* descriptors (collection R, field f).
ReferencedBy(d, id, descriptors) ==
    UNION {Find(d[ref.collection], ref.field :> {id}) : ref \in descriptors}

\* C14 (as stated): a remove that is supplied a reference descriptor under
\* which some document refers to a candidate id does not delete that
\* candidate.
C14_ReferencedNotRemoved ==
    [][(req'.op = "remove" /\ "descriptors" \in DOMAIN req') =>
        \A id \in req'.ids :
            ReferencedBy(db, id, req'.descriptors) # {} =>
                ById(db[req'.collection], id) \subseteq db'[req'.collection]
      ]_vars


---------------------------------------------------------------------------
(* Claims about what a single put writes and returns *)

\* The target id the claim names: the payload's _id, then the id argument,
\* then the id generated during the step.
ClaimedTarget(body, id, generated) ==
    IF Truthy(body, "_id") THEN Val(body, "_id")
    ELSE IF id # "" THEN id
    ELSE CHOOSE g \in generated : TRUE

\* C15: a single put (a step that leaves a put as the last request, the
\* clock standing as it does during a handler) of a payload without
\* _account, by a caller who may write the session account, succeeds and
\* writes exactly one document: the
\* one whose _id is the payload's _id, else the id argument, else a newly
\* generated id; that document carries the caller's account, a _created and
\* the current _modified, and every other document stays as it was.  When
\* the id is generated, no document of the collection had it and the
\* document is created at the current time.
C15_DefaultsOnCreate ==
    [][(/\ req'.op = "put" /\ now' = now
        /\ ~Truthy(req'.body, "_account")
        /\ req'.account.id \in WritableAccounts(req'.account)) =>
        LET coll == req'.collection
            target == ClaimedTarget(req'.body, req'.id, issued' \ issued)
        IN  /\ res'.status = 0
            /\ NeedsFreshId(req'.body, req'.id) =>
                   /\ Cardinality(issued' \ issued) = 1
                   /\ ById(db[coll], target) = {}
            /\ Cardinality(ById(db'[coll], target)) = 1
            /\ \A d \in ById(db'[coll], target) :
                   /\ d["_account"] = req'.account.id
                   /\ Has(d, "_created")
                   /\ Has(d, "_modified") /\ d["_modified"] = now
                   /\ ById(db[coll], target) = {} => d["_created"] = now
            /\ \A e \in db[coll] \cup db'[coll] :
                   e["_id"] # target => (e \in db[coll] /\ e \in db'[coll])
      ]_vars

\* C15 witness: a put without _account, _id and id argument has created a
\* document under a generated id next to the documents already there.
C15_Witness ==
    /\ req.op = "put" /\ NeedsFreshId(req.body, req.id) /\ res.status = 0
    /\ ~Truthy(req.body, "_account")
    /\ \E d \in db[req.collection] :
           /\ d["_id"] \in GenIds /\ d["_account"] = req.account.id
           /\ d["_created"] = now /\ res.value = d
    /\ \E e \in db[req.collection] : e["_id"] \in Ids

\* C16 (as stated): a single put that succeeds returns the document stored
\* under the target id after the write.
C16_PutReturnsStored ==
    (req.op = "put" /\ res.status = 0) =>
        \E d \in db[req.collection] :
            /\ d["_id"] = ClaimedTarget(req.body, req.id, {res.value["_id"]})
            /\ res.value = d


---------------------------------------------------------------------------
(* Claims about usage errors *)

\* The request lacks what the operation needs: a remove without ids, a put
\* of an empty batch, a restore without ids.
UsageError(r) ==
    \/ r.op = "remove" /\ r.ids = {}
    \/ r.op \in {"putMany", "PUTMany"} /\ r.body = <<>>
    \/ r.op = "Trash.restore" /\ r.ids = {}
    \/ r.op = "Trash.POST" /\ r.item = ""

\* C17 (as stated): a remove with no id, a put of an empty batch and a
\* restore with missing or empty ids fail with status 400 and leave every
\* collection and the trash as they were.
C17_UsageErrors ==
    [][UsageError(req') =>
        (res'.status = 400 /\ db' = db /\ trash' = trash)]_vars


---------------------------------------------------------------------------
(* Claims about the answer to a Read *)

\* C18 (as stated): a Read request that the gate and the handler admit is
\* answered: once its handler has run, a response has been sent (status 0
\* stands for a handler that returned without sending one).
C18_ReadAnswered ==
    (req.op \in {"GET", "GET account"} /\ res.admitted) => res.status # 0


---------------------------------------------------------------------------
(* Claims about the store calls of Trash.put and Trash.restore *)

\* The request is a Trash.put, or a Trash.restore, taken one store call at
\* a time.
Stepping(r, op) == r.op = op /\ "pc" \in DOMAIN r

\* The trash holds a record for the document d of col: a TrashRecord with
\* col and d's id that, when the call looked the document up itself, holds d
\* field for field.
HeldInTrash(tr, r, d) ==
    \E t \in tr : /\ t["col"] = r.collection /\ t["oid"] = d["_id"]
                  /\ ~r.given => t["o"] = d

\* C19: at every point of a Trash.put, a store failure or a crash after any
\* store call included, every document that was live under the ids when the
\* call began is in its collection or held in the trash; the call deletes
\* only documents of its collection that are held in the trash, and only
\* the delete does; no other collection changes.
C19_TrashMoveNeverLoses ==
    [][Stepping(req', "Trash.put") =>
        /\ \A d \in req'.targets :
               d \in db'[req'.collection] \/ HeldInTrash(trash', req', d)
        /\ \A c \in Collections : \A d \in db[c] \ db'[c] :
               /\ c = req'.collection /\ req.pc = "delete"
               /\ HeldInTrash(trash, req', d)
        /\ \A c \in Collections : db'[c] \subseteq db[c]
      ]_vars

\* C19 witness: a Trash.put that crashed between its two writes has left
\* both documents it was moving live and held in the trash.
C19_Witness ==
    /\ Stepping(req, "Trash.put") /\ req.pc = "crashed" /\ ~req.given
    /\ Cardinality(req.targets) = 2
    /\ \A d \in req.targets : d \in db[req.collection] /\ HeldInTrash(trash, req, d)

\* C20: in a Trash.restore, only the final delete removes TrashRecords, and
\* every record it removes has its snapshot in its origin collection; a
\* restore that failed or crashed has left the trash as it found it; and a
\* restore whose ids name no TrashRecord changes nothing.
C20_RestoreDeletesRestored ==
    [][Stepping(req', "Trash.restore") =>
        /\ trash' \subseteq trash
        /\ \A t \in trash \ trash' :
               /\ req.pc = "delete" /\ req'.pc = "done"
               /\ t["o"] \in db'[t["col"]]
        /\ req'.pc \in {"failed", "crashed"} => trash' = req'.before
        /\ Find(req'.before, "_id" :> req'.ids) = {} =>
               (db' = db /\ trash' = req'.before)
      ]_vars

\* C20 witness: a restore of two records failed on the second origin
\* collection, where a live document had the id, after it had re-inserted
\* the first; both records are still in the trash.
C20_Witness ==
    /\ Stepping(req, "Trash.restore") /\ req.pc = "failed" /\ req.k = 3
    /\ trash = req.before
    /\ \E t \in trash : t["_id"] \in req.ids /\ t["o"] \in db[t["col"]]
    /\ \E t \in trash : /\ t["_id"] \in req.ids /\ t["o"] \notin db[t["col"]]
                        /\ ById(db[t["col"]], t["oid"]) # {}


---------------------------------------------------------------------------
(* Claims about the records of the trash *)

\* The TrashRecords of the pair (col, oid).
RecordsOf(tr, col, oid) == Find(tr, ("col" :> {col}) @@ ("oid" :> {oid}))

\* C21: no two TrashRecords share an _id or a pair (col, oid); and a
\* Trash.put that succeeds leaves, for every document it found, the one
\* record of its pair, with the _id col::oid, the document as o and the
\* current time as _modified, with the _created and _createdBy of the
\* record that was there or else the current time and the caller, and leaves
\* every other record as it was.
C21_RetrashOneRecord ==
    [][/\ \A s, t \in trash' :
              (s["_id"] = t["_id"] \/ (s["col"] = t["col"] /\ s["oid"] = t["oid"])) => s = t
       /\ (req'.op = "Trash.put" /\ res'.status = 0 /\ now' = now) =>
              /\ \A d \in res'.value :
                   /\ Cardinality(RecordsOf(trash', req'.collection, d["_id"])) = 1
                   /\ \A t \in RecordsOf(trash', req'.collection, d["_id"]) :
                        /\ t["_id"] = TrashId(req'.collection, d["_id"])
                        /\ t["o"] = d /\ t["_modified"] = now
                        /\ IF RecordsOf(trash, req'.collection, d["_id"]) # {}
                           THEN \A s \in RecordsOf(trash, req'.collection, d["_id"]) :
                                    SameField(s, t, "_created") /\ SameField(s, t, "_createdBy")
                           ELSE t["_created"] = now /\ t["_createdBy"] = req'.account.userId
              /\ \A s \in trash :
                     (\A d \in res'.value : ~(s["col"] = req'.collection /\ s["oid"] = d["_id"]))
                         => s \in trash'
      ]_vars

\* C21 witness: a document trashed by one caller was put back and trashed
\* again by another at a later time: the record keeps the first caller and
\* time and holds the later snapshot.
C21_Witness ==
    /\ req.op = "Trash.put" /\ res.status = 0 /\ req.account = u2
    /\ \E t \in trash : /\ t["col"] = req.collection /\ t["o"] \in res.value
                        /\ t["_createdBy"] = "u1" /\ t["_created"] < t["_modified"]
                        /\ t["_modified"] = now
    /\ \E t \in trash : t["col"] # req.collection


\* C22 (as stated): pluck(col, trashId) of an existing trash id succeeds,
\* inserts into col a document equal to the record's snapshot o and leaves
\* the trash as it was; of an absent trash id it fails and changes nothing.
C22_PluckCopiesSnapshot ==
    [][req'.op = "Trash.pluck" =>
        /\ trash' = trash
        /\ \A t \in Find(trash, "_id" :> {req'.id}) :
               res'.status = 0 => t["o"] \in db'[req'.collection]
        /\ Find(trash, "_id" :> {req'.id}) = {} => (res'.status # 0 /\ db' = db)
      ]_vars

\* The records Trash.empty is to delete: those that match every filter
\* that is supplied.
ClaimedPurge(tr, col, oids, tids) ==
    {t \in tr : /\ col # "" => t["col"] = col
                /\ oids # {} => t["oid"] \in oids
                /\ tids # {} => t["_id"] \in tids}

\* C23: Trash.empty(col, oids, trashIds) deletes exactly the TrashRecords
\* that match every supplied filter, all of them when none is supplied,
\* and changes no collection.
C23_PurgeOnlyMatching ==
    [][req'.op = "Trash.empty" =>
        /\ db' = db
        /\ trash' = trash \ ClaimedPurge(trash, req'.collection, req'.oids, req'.tids)
      ]_vars

\* C23 witness: a purge that named a collection and an id has run while a
\* record of the other collection stays in the trash and documents are
\* live.
C23_Witness ==
    /\ req.op = "Trash.empty" /\ req.collection = "widgets" /\ req.oids = {"w1"}
    /\ RecordsOf(trash, "widgets", "w1") = {}
    /\ RecordsOf(trash, "gadgets", "w1") # {}
    /\ db["widgets"] # {}


---------------------------------------------------------------------------
(* Claims about the update a put builds *)

\* C24 (as stated): the update constructModifier builds for the payload of
\* a put carries in $set every field of the payload that is neither an
\* operator nor protected, with its value, and _modified at the current
\* time, and carries every operator of the payload with the fields of its
\* sub-document.
C24_SetBucketComplete ==
    req.op = "put" =>
        LET doc == DefaultAccount(req.account, req.body)
            modifier == constructModifier(doc, req.account, now)
        IN  /\ modifier["$set"]["_modified"] = now
            /\ \A i \in 1..Len(doc) :
                 LET a == doc[i][1]
                     v == doc[i][2]
                 IN  IF a \in PassThrough
                     THEN /\ Has(modifier, a)
                          /\ \A f \in DOMAIN v : Has(modifier[a], f)
                     ELSE a \notin Protected =>
                          (Has(modifier["$set"], a) /\ modifier["$set"][a] = v)

\* C25 (as stated): every document that put has inserted has a _created
\* and a _createdBy.
C25_AuditFieldsSet ==
    \A c \in Collections : \A d \in db[c] : Has(d, "_created") /\ Has(d, "_createdBy")

\* C26 (as stated): a Trash.put by a caller who is not a superuser removes
\* from the collection, and records in the trash, only documents of
\* accounts the caller holds at the level of a delete (owner, or write).
C26_TrashMoveScoped ==
    [][(req'.op = "Trash.put" /\ ~req'.account.super) =>
        LET permitted == acl("owner", req'.account.userId)
                           \cup acl("write", req'.account.userId)
        IN  /\ \A d \in db[req'.collection] \ db'[req'.collection] :
                   d["_account"] \in permitted
            /\ \A t \in trash' \ trash : t["o"]["_account"] \in permitted
      ]_vars


\* Two single puts to one id, by two callers, racing at the store: one is
\* followed from its call to its upsert and its read, the other lands
\* whole at any moment in between, with a modifier built then or earlier.
RaceBodies ==
    {<<Pair("name", "x")>>, <<Pair("name", "y"), Pair("color", "red")>>}

NextRacePut ==
    \/ Tick
    \/ \E account \in {u1, u2}, body \in RaceBodies :
            PutCall(account, "widgets", body, "w1")
    \/ PutLand
    \/ PutRead
    \/ \E account \in {u1, u2}, body \in RaceBodies, date \in 0..MaxClock :
            PutDuring(account, "widgets", body, "w1", date)

SpecRacePut == Init /\ [][NextRacePut]_vars

\* C27: after every upsert of a single put that reaches the store, whatever
\* other puts to the same _id landed before it, exactly one document has
\* that _id; it holds the landed payload's fields and the landed modifier's
\* _modified; a field the landed payload does not name keeps its value; and
\* _created and _createdBy are those of the write that inserted the
\* document: the landed write's own if no document had the _id before, the
\* stored ones otherwise.
C27_LastWriterWins ==
    [][("landed" \in DOMAIN res' /\ res'.status = 0) =>
        LET l == res'.landed
            pre == Find(db[l.collection], "_id" :> {l.target})
            post == Find(db'[l.collection], "_id" :> {l.target})
            doc == DefaultAccount(l.account, l.body)
            named == {doc[i][1] : i \in 1..Len(doc)} \cup {"_modified"}
        IN  /\ Cardinality(post) = 1
            /\ \A d \in post :
                 /\ d["_modified"] = l.date
                 /\ \A i \in 1..Len(doc) : Has(d, doc[i][1]) /\ d[doc[i][1]] = doc[i][2]
                 /\ IF pre = {}
                    THEN d["_created"] = l.date /\ d["_createdBy"] = l.account.userId
                    ELSE \A o \in pre :
                           \A f \in (DOMAIN o) \ named : Has(d, f) /\ d[f] = o[f]
      ]_vars

\* The put in flight landed last on a document that a later put inserted:
\* the document was modified before it was created.
C27_Witness ==
    /\ req.op = "put" /\ "pc" \in DOMAIN req /\ req.pc \in {"findOne", "done"}
    /\ "landed" \in DOMAIN res /\ res.landed.date = req.date
    /\ \E d \in db["widgets"] :
         /\ d["_id"] = "w1" /\ d["_modified"] < d["_created"]
         /\ d["_createdBy"] # req.account.userId


\* Trash.put with raw ids, one store call at a time, while single puts to
\* the same id land in between.
NextRaceTrash ==
    \/ Tick
    \/ Idle /\ Put(u1, "widgets", <<Pair("name", "x")>>, "w1")
    \/ TrashPutCall(u1, "widgets", {"w1"}, FALSE)
    \/ TrashPutFind
    \/ \E k \in 0..MaxBatch, failed \in BOOLEAN : TrashPutBulk(k, failed)
    \/ \E done \in SUBSET {"w1"}, failed \in BOOLEAN : TrashPutDelete(done, failed)
    \/ \E body \in RaceBodies, date \in 0..MaxClock :
            PutDuring(u1, "widgets", body, "w1", date)

SpecRaceTrash == Init /\ [][NextRaceTrash]_vars

\* C28: every document that the deleteMany of a Trash.put called with raw
\* ids removes from the origin collection is the snapshot o of its
\* TrashRecord, whatever puts landed since the call read the document.
C28_TrashDeletesSnapshot ==
    [][("pc" \in DOMAIN req /\ req.op = "Trash.put" /\ ~req.given
            /\ req.pc = "delete" /\ req' # req) =>
        \A d \in db[req.collection] \ db'[req.collection] :
            \E t \in trash' : t["_id"] = TrashId(req.collection, d["_id"]) /\ t["o"] = d
      ]_vars


\* Trash.restore one store call at a time, while whole Trash.put calls on
\* the same document run in between.
NextRaceRestore ==
    \/ Tick
    \/ \E body \in RaceBodies : Idle /\ Put(u1, "widgets", body, "w1")
    \/ Idle /\ TrashPutIds(u1, "widgets", {"w1"})
    \/ TrashRestoreCall({TrashId("widgets", "w1")})
    \/ TrashRestoreFind
    \/ TrashRestoreInsert
    \/ TrashRestoreDelete
    \/ TrashPutDuring(u1, "widgets", {"w1"})

SpecRaceRestore == Init /\ [][NextRaceRestore]_vars

\* C29: every TrashRecord that the deleteMany of a Trash.restore removes has
\* its snapshot o in its origin collection afterwards, whatever Trash.put
\* calls created or refreshed the record since restore was called.
C29_RestoreDeletesRestored ==
    [][("pc" \in DOMAIN req /\ req.op = "Trash.restore"
            /\ req.pc = "delete" /\ req' # req) =>
        \A t \in trash \ trash' : t["o"] \in db'[t["col"]]
      ]_vars

=============================================================================
